---- MODULE Spec2Model ----
(***************************************************************************)
(* Model of the first-scene pre-generation engine of gen-ai-rpg            *)
(* (backend/services/scene_pregenerator.py) together with the parts of the *)
(* vendor wrappers it calls (services/gemini.py, services/elevenlabs.py,   *)
(* services/supabase.py, services/content_sanitizer.py).                   *)
(*                                                                         *)
(* Texts are sequences of word tokens (one space between two tokens).      *)
(* The vendor APIs are the environment: every call of a port draws its     *)
(* outcome from a small set with \E.                                       *)
(***************************************************************************)
EXTENDS Naturals, Sequences, FiniteSets, TLC

\* ------------------------------------------------------------------ bounds

\* Top-level generate_single_first_scene calls made one after the other in Spec.
MaxCalls == 2
\* The combinations a direct caller of generate_single_first_scene picks from
\* (a prefix of the cross product, in generation order).
NumOneCombos == 2
\* CHOICE_ lines the story model may put in one response.
MaxChoiceLines == 5
\* Tokens of a text handed to the sanitizer in SpecText.
MaxLen == 3
\* The combinations generate_all_first_scenes ranges over in SpecAll (a prefix
\* of the cross product, more than one batch).
NumCombos == 5
\* generate_all_first_scenes invocations made one after the other in SpecAll.
MaxRuns == 2

\* ------------------------------------------------------- program constants

PORTRAIT_IDS == <<"m1", "m2", "m3", "m4", "f1", "f2", "f3", "f4">>
BUILD_TYPES == <<"warrior", "mage", "rogue", "ranger">>
MAX_RETRIES == 3
RETRY_DELAYS == <<2, 5, 10>>
BATCH_SIZE == 4
BATCH_DELAY == 3
\* choices[:4] in _parse_story_response
CHOICE_SLICE == 4

Null == "null"
\* None where a message (a sequence of tokens) is expected.
NoError == <<>>

Min(a, b) == IF a < b THEN a ELSE b

\* The cross product in the order of the nested loops of
\* generate_all_first_scenes: portrait-major, build-minor.
AllCombinations ==
    [k \in 1..(Len(PORTRAIT_IDS) * Len(BUILD_TYPES)) |->
        << PORTRAIT_IDS[((k - 1) \div Len(BUILD_TYPES)) + 1],
           BUILD_TYPES[((k - 1) % Len(BUILD_TYPES)) + 1] >>]

OneCombos == {AllCombinations[k] : k \in 1..NumOneCombos}

\* -------------------------------------------------------------------- text

\* str.lower() on the tokens of the modelled vocabulary that have capitals.
Lower(tok) ==
    CASE tok = "SAFETY" -> "safety"
      [] tok = "Blocked" -> "blocked"
      [] tok = "Awakening" -> "awakening"
      [] tok = "Connection" -> "connection"
      [] tok = "Quota" -> "quota"
      [] OTHER -> tok

\* VIOLENCE_REPLACEMENTS, the entries whose pattern (\bword\b, IGNORECASE)
\* can match a token of the modelled vocabulary.
ViolenceReplacement(tok) ==
    CASE Lower(tok) = "blood" -> <<"red", "marks">>
      [] Lower(tok) = "pain" -> <<"discomfort">>
      [] Lower(tok) = "battle" -> <<"encounter">>
      [] Lower(tok) = "attack" -> <<"approach">>
      [] Lower(tok) = "torture" -> <<"ordeal">>
      [] OTHER -> <<tok>>

\* EXTREME_PATTERNS (\bprefix\w+), as the tokens of the vocabulary they match.
IsExtreme(tok) == Lower(tok) \in {"execution", "torturing", "mutilated", "suicide"}

\* excessive_adj of _clean_up_text.
IsExcessiveAdj(tok) == Lower(tok) \in {"extremely", "terribly", "horribly"}

ExtremeReplacement(tok) == IF IsExtreme(tok) THEN <<"[intense scene]">> ELSE <<tok>>
CleanUpToken(tok) == IF IsExcessiveAdj(tok) THEN <<"very">> ELSE <<tok>>

\* A run of whitespace other than the one space between two tokens.
Gap == "  "

\* VIOLENCE_REPLACEMENTS, the entries whose pattern is a phrase of two words
\* with one space between them.
ViolencePhrases ==
    << << <<"dead", "body">>, <<"still", "figure">> >>,
       << <<"dead", "bodies">>, <<"still", "figures">> >> >>

IsPrefix(p, s) == Len(p) <= Len(s) /\ SubSeq(s, 1, Len(p)) = p

RECURSIVE ReplacePhrase(_, _, _)
ReplacePhrase(s, from, to) ==
    IF s = <<>> THEN <<>>
    ELSE IF IsPrefix(from, s)
         THEN to \o ReplacePhrase(SubSeq(s, Len(from) + 1, Len(s)), from, to)
         ELSE <<Head(s)>> \o ReplacePhrase(Tail(s), from, to)

RECURSIVE ApplyReplacements(_, _)
ApplyReplacements(s, table) ==
    IF table = <<>> THEN s
    ELSE ApplyReplacements(ReplacePhrase(s, Head(table)[1], Head(table)[2]), Tail(table))

\* One pass of substitutions over the whole text.
PatternSub(pass, tok) ==
    CASE pass = "violence" -> ViolenceReplacement(tok)
      [] pass = "extreme" -> ExtremeReplacement(tok)
      [] pass = "clean up" -> CleanUpToken(tok)

RECURSIVE SubAll(_, _)
SubAll(pass, s) ==
    IF s = <<>> THEN <<>> ELSE PatternSub(pass, Head(s)) \o SubAll(pass, Tail(s))

\* ContentSanitizer.sanitize_for_image_generation: word replacements, then the
\* extreme patterns, then _clean_up_text.
\* _clean_up_text: the adverbs, then re.sub(r'\s+', ' ', text) and strip().
CleanUpText(s) ==
    LET IsWord(tok) == tok # Gap
    IN SelectSeq(SubAll("clean up", s), IsWord)

SanitizeForImageGeneration(text) ==
    IF text = <<>> THEN text
    ELSE CleanUpText(SubAll("extreme",
             ApplyReplacements(SubAll("violence", text), ViolencePhrases)))

\* additional_replacements of _apply_progressive_sanitization, in dict order;
\* str.replace of a phrase of one or two tokens.
AdditionalReplacements ==
    << << <<"bandit", "attack">>, <<"unexpected", "event">> >>,
       << <<"unconscious">>, <<"resting">> >>,
       << <<"amnesia">>, <<"memory", "loss">> >>,
       << <<"robbed">>, <<"things", "taken">> >>,
       << <<"hit">>, <<"affected">> >>,
       << <<"wound">>, <<"mark">> >>,
       << <<"pain">>, <<"discomfort">> >> >>

GenericDescription ==
    <<"A", "character", "awakens", "in", "a", "peaceful", "forest", "clearing", ".",
      "They", "are", "confused", "about", "their", "identity", "and", "past", ".",
      "The", "environment", "is", "calm", "and", "mysterious", ".">>

\* As ApplyProgressiveSanitization, handing an empty text back at once.
ApplyProgressiveSanitizationUnlessEmpty(text, retry_count) ==
    LET s0 == SanitizeForImageGeneration(text)
        s1 == IF retry_count >= 1 THEN ApplyReplacements(s0, AdditionalReplacements) ELSE s0
    IN IF text = <<>> THEN text
       ELSE IF retry_count >= 2 THEN GenericDescription ELSE s1

\* As ApplyProgressiveSanitization, without the generic text of the third level.
ApplyProgressiveSanitizationNoGeneric(text, retry_count) ==
    LET s0 == SanitizeForImageGeneration(text)
    IN IF retry_count >= 1 THEN ApplyReplacements(s0, AdditionalReplacements) ELSE s0

ApplyProgressiveSanitization(text, retry_count) ==
    LET s0 == SanitizeForImageGeneration(text)
        s1 == IF retry_count >= 1 THEN ApplyReplacements(s0, AdditionalReplacements) ELSE s0
    IN IF retry_count >= 2 THEN GenericDescription ELSE s1

\* PORTRAIT_CHARACTERISTICS (age, eye_color, skin, hair) of the portraits the
\* modelled combinations use.
PortraitCharacteristics(pid) ==
    CASE pid = "m1" ->
           <<"early", "twenties", ",", "brown", "eyes", "gleaming", "with", "fervor", ",",
             "weathered", "skin", "flushed", ",", "dark", "brown", "hair", "disheveled",
             ",", "stubble">>
      [] pid = "m2" ->
           <<"around", "40", ",", "brown", "eyes", "filled", "with", "grief", ",",
             "weathered", "skin", ",", "dark", "brown", "beard", "with", "gray">>
      [] OTHER -> <<>>

Gender(pid) == IF pid \in {"m1", "m2", "m3", "m4"} THEN "male" ELSE "female"

CharacterDesc(key) ==
    LET base == <<"a", key[2], Gender(key[1])>>
        chars == PortraitCharacteristics(key[1])
    IN IF chars # <<>> THEN base \o <<"with">> \o chars ELSE base

SceneContext ==
    <<"Awakening", "in", "forest", "clearing", "after", "bandit", "attack", ",",
      "amnesia", "scenario">>

\* ------------------------------------------------------------------- ports

\* Messages a vendor error may carry (str(e)).
SafetyMsg == <<"Blocked", "by", "SAFETY", "filter">>
TimeoutMsg == <<"Connection", "timeout">>
QuotaMsg == <<"Quota", "exceeded">>
ErrorMessages == {SafetyMsg, TimeoutMsg, QuotaMsg}

SafetyKeywords == {"safety", "content", "policy", "blocked", "filtered"}

\* any(keyword in str(e).lower() for keyword in [...])
IsSafetyError(msg) == \E i \in DOMAIN msg : Lower(msg[i]) \in SafetyKeywords

\* What the story model may answer: whether the text has a NARRATION: line and a
\* VISUAL_SCENE: line, and how many CHOICE_ lines.
Responses ==
    {[narr |-> TRUE, vis |-> TRUE, lines |-> k] :
        k \in {0, CHOICE_SLICE - 1, CHOICE_SLICE, MaxChoiceLines}}
    \cup {[narr |-> TRUE, vis |-> FALSE, lines |-> CHOICE_SLICE],
          [narr |-> FALSE, vis |-> TRUE, lines |-> CHOICE_SLICE],
          [narr |-> FALSE, vis |-> FALSE, lines |-> 0]}

\* Outcomes of one story_model.generate_content_async call as seen through
\* generate_story_scene: the response text, or the exception re-raised.
StoryOutcomes ==
    {[kind |-> "ok", resp |-> r, msg |-> <<>>] : r \in Responses}
    \cup {[kind |-> "raise", resp |-> CHOOSE r \in Responses : r.lines = 0 /\ ~r.narr,
           msg |-> m] : m \in ErrorMessages}

ChoiceText(i) ==
    CASE i = 1 -> "choice one" [] i = 2 -> "choice two" [] i = 3 -> "choice three"
      [] i = 4 -> "choice four" [] OTHER -> "choice more"

\* GeminiService._parse_story_response
ParseStoryResponse(resp) ==
    LET narration == IF resp.narr THEN "narration text" ELSE ""
        given == IF resp.vis THEN "visual text" ELSE ""
        choices == [i \in 1..resp.lines |-> ChoiceText(i)]
    IN [narration |-> narration,
        visual_scene |-> IF given = "" /\ narration # "" THEN "fallback visual" ELSE given,
        choices |-> SubSeq(choices, 1, Min(Len(choices), CHOICE_SLICE))]

NoStory == [narration |-> Null, visual_scene |-> Null, choices |-> <<>>]

\* GeminiService.generate_scene_image: the generated scene, or on any failure
\* the character image it was given.
GenerateSceneImage(character_image, genOk) ==
    IF genOk THEN "scene bytes" ELSE character_image

\* SupabaseService.upload_character_image: the public URL of the stored blob,
\* or None when the upload fails.
UrlOf(bytes) ==
    CASE bytes = "scene bytes" -> "url of scene bytes"
      [] bytes = "character bytes" -> "url of character bytes"
      [] bytes = "audio bytes" -> "url of audio bytes"
      [] OTHER -> "url of other bytes"
UploadCharacterImage(file_data, uploadOk) ==
    IF uploadOk THEN UrlOf(file_data) ELSE Null

\* Environment of one _generate_scene_image call.
ImageEnvs ==
    [build : BOOLEAN, download : BOOLEAN, gen : BOOLEAN, upload : BOOLEAN]

\* Environment of one _generate_voice_narration call: whether generate_narration
\* returns audio (b"" otherwise), whether the upload succeeds.
AudioEnvs == [speech : BOOLEAN, upload : BOOLEAN]

\* ------------------------------------------------------------------- store

SameKey(r, q) == r.portrait_id = q.portrait_id /\ r.build_type = q.build_type

\* The first_scenes table: an upsert replaces the row of the same
\* (portrait_id, build_type) pair.
RowStoreUpsert(S, row) == {r \in S : ~SameKey(r, row)} \cup {row}

\* SupabaseService.upsert_first_scene: False, and nothing written, when the
\* request fails.
UpsertFirstSceneInsert(S, row, ok) ==
    IF ok THEN [store |-> S \cup {row}, success |-> TRUE]
    ELSE [store |-> S, success |-> FALSE]
\* As UpsertFirstScene, the update on conflict leaving a column alone where the
\* new record has null.
UpsertFirstSceneMerge(S, row, ok) ==
    LET old == {r \in S : SameKey(r, row)}
        Merged(o) == [row EXCEPT !.image_url = IF @ = Null THEN o.image_url ELSE @,
                                 !.audio_url = IF @ = Null THEN o.audio_url ELSE @]
    IN IF ~ok THEN [store |-> S, success |-> FALSE]
       ELSE IF old = {} THEN [store |-> S \cup {row}, success |-> TRUE]
       ELSE [store |-> (S \ old) \cup {Merged(o) : o \in old}, success |-> TRUE]

UpsertFirstScene(S, row, ok) ==
    IF ok THEN [store |-> RowStoreUpsert(S, row), success |-> TRUE]
    ELSE [store |-> S, success |-> FALSE]

\* As CheckFirstSceneExists, without the is_successful filter of the query.
CheckFirstSceneExistsAnyRow(S, key, readOk) ==
    IF readOk
    THEN \E r \in S : r.portrait_id = key[1] /\ r.build_type = key[2]
    ELSE FALSE

\* SupabaseService.check_first_scene_exists: False when the query fails.
CheckFirstSceneExists(S, key, readOk) ==
    IF readOk
    THEN \E r \in S : r.portrait_id = key[1] /\ r.build_type = key[2] /\ r.is_successful
    ELSE FALSE

\* choices_json of _store_first_scene
ChoicesJson(choices) == [i \in 1..Len(choices) |-> [id |-> i, text |-> choices[i]]]

\* ------------------------------------------------- generate_single_first_scene

VARIABLES
    store,   \* the first_scenes table: a set of rows
    task,    \* task[t]: the generate_single_first_scene call running in slot t
    calls,   \* keys of the generate_single_first_scene calls made so far
    gen,     \* the generate_all_first_scenes invocation: its locals and its log
    req,     \* the last request on the read path and what it got
    written, \* per key, the row of the most recent upsert the row-store accepted
    txt,     \* a text handed to the sanitizer and what came back
    cli      \* one run of scripts/pregenerate_scenes.py

vars == <<store, task, calls, gen, req, written, txt, cli>>

NoResult == [success |-> FALSE, portrait_id |-> Null, build_type |-> Null,
             retry_count |-> 0, has_image |-> FALSE, has_audio |-> FALSE,
             error |-> NoError, returned |-> FALSE]

Row(key, narration, visual_scene, image_url, audio_url, choices, retry_count, last_error, is_successful) ==
    [portrait_id |-> key[1], build_type |-> key[2], narration |-> narration,
     visual_scene |-> visual_scene, image_url |-> image_url, audio_url |-> audio_url,
     choices |-> ChoicesJson(choices), retry_count |-> retry_count,
     last_error |-> last_error, is_successful |-> is_successful]

\* No upsert issued yet.
NoRow == Row(<<Null, Null>>, Null, Null, Null, Null, <<>>, 0, NoError, FALSE)

\* What one attempt has done so far: story-generator calls and the inputs of the
\* last one, the image step taken, blobs uploaded, speech call, upserts issued.
FreshAttempt ==
    [story |-> 0, input |-> <<>>, image |-> "none", uploads |-> {},
     speech |-> FALSE, upserts |-> 0, row |-> NoRow, accepted |-> FALSE]

IdleTask ==
    [pc |-> "idle", key |-> <<Null, Null>>, n |-> 0, story |-> NoStory,
     image_url |-> Null, audio_url |-> Null, err |-> NoError, result |-> NoResult,
     attempts |-> 0, storyLog |-> <<>>, sleeps |-> <<>>, upserts |-> 0,
     a |-> FreshAttempt]

\* Entry of generate_single_first_scene(portrait_id, build_type, retry_count=0).
NewTask(key) ==
    [IdleTask EXCEPT !.pc = "story", !.key = key, !.attempts = 1]

\* What the story-generator answered to one call, for the call log.
Answer(o) == IF o.kind = "ok" THEN <<"ok">> ELSE o.msg

\* _generate_story_with_safety_retry: o1 is the outcome of the first
\* story-generator call, o2 that of the sanitized second call (made only after
\* a safety error of the first).
GenerateStoryRetryUnsanitized(key, retry_count, o1, o2) ==
    LET first == [desc |-> CharacterDesc(key), ctx |-> SceneContext]
    IN IF o1.kind = "ok"
       THEN [ok |-> TRUE, data |-> ParseStoryResponse(o1.resp), msg |-> NoError,
             log |-> <<Answer(o1)>>, input |-> first]
       ELSE IF IsSafetyError(o1.msg)
            THEN [ok |-> o2.kind = "ok",
                  data |-> IF o2.kind = "ok" THEN ParseStoryResponse(o2.resp) ELSE NoStory,
                  msg |-> IF o2.kind = "ok" THEN NoError ELSE o2.msg,
                  log |-> <<Answer(o1), Answer(o2)>>, input |-> first]
            ELSE [ok |-> FALSE, data |-> NoStory, msg |-> o1.msg,
                  log |-> <<Answer(o1)>>, input |-> first]

\* sanitized_desc and sanitized_context of the second call, for every
\* combination and retry_count.
SanitizedStoryInput ==
    [key \in {AllCombinations[k] : k \in DOMAIN AllCombinations},
     retry_count \in 0..MAX_RETRIES |->
        [desc |-> ApplyProgressiveSanitization(CharacterDesc(key), retry_count),
         ctx |-> ApplyProgressiveSanitization(SceneContext, retry_count)]]

GenerateStoryWithSafetyRetry(key, retry_count, o1, o2) ==
    LET desc == CharacterDesc(key)
        first == [desc |-> desc, ctx |-> SceneContext]
        second == SanitizedStoryInput[key, retry_count]
    IN IF o1.kind = "ok"
       THEN [ok |-> TRUE, data |-> ParseStoryResponse(o1.resp), msg |-> NoError,
             log |-> <<Answer(o1)>>, input |-> first]
       ELSE IF IsSafetyError(o1.msg)
            THEN IF o2.kind = "ok"
                 THEN [ok |-> TRUE, data |-> ParseStoryResponse(o2.resp), msg |-> NoError,
                       log |-> <<Answer(o1), Answer(o2)>>, input |-> second]
                 ELSE [ok |-> FALSE, data |-> NoStory, msg |-> o2.msg,
                       log |-> <<Answer(o1), Answer(o2)>>, input |-> second]
            ELSE [ok |-> FALSE, data |-> NoStory, msg |-> o1.msg,
                  log |-> <<Answer(o1)>>, input |-> first]

\* Lines 145-148 and the except clause's error_msg = str(e).
StoryStep(T, o1, o2) ==
    LET g == GenerateStoryWithSafetyRetry(T.key, T.n, o1, o2)
        A == [T.a EXCEPT !.story = Len(g.log), !.input = g.input]
    IN IF g.ok
       THEN [T EXCEPT !.pc = "image", !.story = g.data, !.a = A,
                      !.storyLog = @ \o g.log]
       ELSE [T EXCEPT !.pc = "failed", !.err = g.msg, !.a = A,
                      !.storyLog = @ \o g.log]

\* _generate_scene_image: the URL, what the step did, the blobs it uploaded.
GenerateSceneImageStep(key, story, env) ==
    IF ~env.build THEN [url |-> Null, did |-> "no build image", uploads |-> {}]
    ELSE IF ~env.download THEN [url |-> Null, did |-> "download failed", uploads |-> {}]
    ELSE LET bytes == GenerateSceneImage("character bytes", env.gen)
             url == UploadCharacterImage(bytes, env.upload)
         IN [url |-> url,
             did |-> IF env.gen THEN "generated" ELSE "generation failed",
             uploads |-> IF url # Null THEN {bytes} ELSE {}]

\* As ImageStep, with a failed upload raised out of the image step.
ImageStepUncaught(T, env) ==
    LET g == GenerateSceneImageStep(T.key, T.story, env)
    IN IF env.build /\ env.download /\ ~env.upload
       THEN [T EXCEPT !.pc = "failed", !.err = TimeoutMsg,
                      !.a = [@ EXCEPT !.image = g.did]]
       ELSE [T EXCEPT !.pc = "audio", !.image_url = g.url,
                      !.a = [@ EXCEPT !.image = g.did, !.uploads = @ \cup g.uploads]]

ImageStep(T, env) ==
    LET g == GenerateSceneImageStep(T.key, T.story, env)
    IN [T EXCEPT !.pc = "audio", !.image_url = g.url,
                 !.a = [@ EXCEPT !.image = g.did, !.uploads = @ \cup g.uploads]]

\* _generate_voice_narration
GenerateVoiceNarration(narration, env) ==
    LET audio_data == IF env.speech THEN "audio bytes" ELSE ""
    IN IF audio_data = "" THEN [url |-> Null, uploads |-> {}]
       ELSE LET url == UploadCharacterImage(audio_data, env.upload)
            IN [url |-> url, uploads |-> IF url # Null THEN {audio_data} ELSE {}]

\* As AudioStep, handing the attempt to the store step before the audio step ran.
AudioStepSkipped(T, env) ==
    [T EXCEPT !.pc = "store"]

AudioStep(T, env) ==
    LET g == GenerateVoiceNarration(T.story.narration, env)
    IN [T EXCEPT !.pc = "store", !.audio_url = g.url,
                 !.a = [@ EXCEPT !.speech = TRUE, !.uploads = @ \cup g.uploads]]

\* _store_first_scene: the table afterwards and whether the write was applied;
\* a failed write is logged and nothing else.
StoreFirstScene(S, row, ok) == UpsertFirstScene(S, row, ok)

\* Lines 156-177: store the scene, return the success result.
SuccessRow(T) ==
    Row(T.key, T.story.narration, T.story.visual_scene, T.image_url, T.audio_url,
        T.story.choices, T.n, NoError, TRUE)

\* As StoreSuccessStep, a rejected write failing the attempt.
StoreSuccessStepChecked(T, S, ok) ==
    LET row == SuccessRow(T)
        w == StoreFirstScene(S, row, ok)
        U == [T EXCEPT !.upserts = @ + 1,
                !.a = [@ EXCEPT !.upserts = @ + 1, !.row = row, !.accepted = w.success]]
    IN [store |-> w.store,
        task |-> IF w.success
                 THEN [U EXCEPT !.pc = "done",
                         !.result = [success |-> TRUE, portrait_id |-> T.key[1],
                                     build_type |-> T.key[2], retry_count |-> T.n,
                                     has_image |-> T.image_url # Null,
                                     has_audio |-> T.audio_url # Null,
                                     error |-> NoError, returned |-> TRUE]]
                 ELSE [U EXCEPT !.pc = "failed", !.err = <<"upsert failed">>]]

StoreSuccessStep(T, S, ok) ==
    LET row == SuccessRow(T)
        w == StoreFirstScene(S, row, ok)
    IN [store |-> w.store,
        task |-> [T EXCEPT !.pc = "done",
                    !.upserts = @ + 1,
                    !.a = [@ EXCEPT !.upserts = @ + 1, !.row = row, !.accepted = w.success],
                    !.result = [success |-> TRUE, portrait_id |-> T.key[1],
                                build_type |-> T.key[2], retry_count |-> T.n,
                                has_image |-> T.image_url # Null,
                                has_audio |-> T.audio_url # Null,
                                error |-> NoError, returned |-> TRUE]]]

\* Lines 179-210: store the failure, then sleep and retry, or return the failure.
FailureRowNextCount(T) ==
    Row(T.key, "Generation failed", "Generation failed", Null, Null, <<>>, T.n + 1,
        T.err, FALSE)
FailureRow(T) ==
    Row(T.key, "Generation failed", "Generation failed", Null, Null, <<>>, T.n, T.err, FALSE)

MayRetryOffByOne(retry_count) == retry_count < MAX_RETRIES
MayRetry(retry_count) == retry_count < MAX_RETRIES - 1

\* As StoreFailureStep, storing the failure only when no retry is left.
StoreFailureOnlyWhenFinal(T, S, ok) ==
    LET row == FailureRow(T)
        w == StoreFirstScene(S, row, ok)
        U == [T EXCEPT !.upserts = @ + 1,
                !.a = [@ EXCEPT !.upserts = @ + 1, !.row = row, !.accepted = w.success]]
    IN IF MayRetry(T.n)
       THEN [store |-> S,
             task |-> [T EXCEPT !.pc = "sleep", !.sleeps = Append(@, RETRY_DELAYS[T.n + 1])]]
       ELSE [store |-> w.store,
             task |-> [U EXCEPT !.pc = "done",
                         !.result = [success |-> FALSE, portrait_id |-> T.key[1],
                                     build_type |-> T.key[2], retry_count |-> T.n,
                                     has_image |-> FALSE, has_audio |-> FALSE,
                                     error |-> T.err, returned |-> TRUE]]]

StoreFailureStep(T, S, ok) ==
    LET row == FailureRow(T)
        w == StoreFirstScene(S, row, ok)
        U == [T EXCEPT !.upserts = @ + 1,
                !.a = [@ EXCEPT !.upserts = @ + 1, !.row = row, !.accepted = w.success]]
    IN [store |-> w.store,
        task |-> IF MayRetry(T.n)
                 THEN IF T.n + 1 \in DOMAIN RETRY_DELAYS
                      THEN [U EXCEPT !.pc = "sleep",
                                     !.sleeps = Append(@, RETRY_DELAYS[T.n + 1])]
                      ELSE [U EXCEPT !.pc = "index error"]
                 ELSE [U EXCEPT !.pc = "done",
                         !.result = [success |-> FALSE, portrait_id |-> T.key[1],
                                     build_type |-> T.key[2], retry_count |-> T.n,
                                     has_image |-> FALSE, has_audio |-> FALSE,
                                     error |-> T.err, returned |-> TRUE]]]

\* asyncio.sleep(delay) is over: generate_single_first_scene(..., retry_count + 1).
WakeStep(T) ==
    [T EXCEPT !.pc = "story", !.n = @ + 1, !.attempts = @ + 1, !.story = NoStory,
              !.image_url = Null, !.audio_url = Null, !.err = NoError, !.a = FreshAttempt]

\* The write log after an attempt that has issued its upsert: the row replaces
\* the logged row of its key when the row-store accepted it.
LastWrite(W, a) ==
    IF a.upserts > 0 /\ a.accepted
    THEN {r \in W : ~SameKey(r, a.row)} \cup {a.row}
    ELSE W

\* No text handed to the sanitizer yet.
IdleTxt == [op |-> "none", input |-> <<>>, k |-> 0, passes |-> 0, out |-> <<>>, again |-> <<>>]

\* The summary main reads its counts from.
CliSummary(total_combinations, already_generated, newly_generated, failed) ==
    [status |-> "completed", total_combinations |-> total_combinations,
     already_generated |-> already_generated, newly_generated |-> newly_generated,
     failed |-> failed]

\* The script has not run.  existing holds the combinations that have a
\* successful row when it starts, generated the combinations
\* generate_single_first_scene is called for during the run.
IdleCli ==
    [op |-> "none",
     args |-> [portrait_id |-> Null, build_type |-> Null, force |-> FALSE, dry_run |-> FALSE],
     total_combinations |-> 0, service |-> FALSE, summary |-> CliSummary(0, 0, 0, 0),
     exit |-> 0, existing |-> {}, generated |-> {}]

\* ---- the steps as actions of task slot t; the environment draws each port
\* ---- outcome from the set the specification hands in

Story(t, outcomes) ==
    /\ task[t].pc = "story"
    /\ \E o1 \in outcomes, o2 \in outcomes :
          task' = [task EXCEPT ![t] = StoryStep(task[t], o1, o2)]
    /\ UNCHANGED <<store, calls, gen, req, written, txt, cli>>

Image(t, envs) ==
    /\ task[t].pc = "image"
    /\ \E env \in envs : task' = [task EXCEPT ![t] = ImageStep(task[t], env)]
    /\ UNCHANGED <<store, calls, gen, req, written, txt, cli>>

Audio(t, envs) ==
    /\ task[t].pc = "audio"
    /\ \E env \in envs : task' = [task EXCEPT ![t] = AudioStep(task[t], env)]
    /\ UNCHANGED <<store, calls, gen, req, written, txt, cli>>

StoreSuccess(t) ==
    /\ task[t].pc = "store"
    /\ \E ok \in BOOLEAN :
          LET r == StoreSuccessStep(task[t], store, ok)
          IN /\ store' = r.store
             /\ task' = [task EXCEPT ![t] = r.task]
             /\ written' = LastWrite(written, r.task.a)
    /\ UNCHANGED <<calls, gen, req, txt, cli>>

StoreFailure(t) ==
    /\ task[t].pc = "failed"
    /\ \E ok \in BOOLEAN :
          LET r == StoreFailureStep(task[t], store, ok)
          IN /\ store' = r.store
             /\ task' = [task EXCEPT ![t] = r.task]
             /\ written' = LastWrite(written, r.task.a)
    /\ UNCHANGED <<calls, gen, req, txt, cli>>

Wake(t) ==
    /\ task[t].pc = "sleep"
    /\ task' = [task EXCEPT ![t] = WakeStep(task[t])]
    /\ UNCHANGED <<store, calls, gen, req, written, txt, cli>>

\* A caller awaits generate_single_first_scene(key) in slot 1, after the
\* calls made before have returned; calls lists the keys called so far.
Call(key, limit) ==
    /\ Len(calls) < limit
    /\ task[1].pc \in {"idle", "done"}
    /\ task' = [task EXCEPT ![1] = NewTask(key)]
    /\ calls' = Append(calls, key)
    /\ UNCHANGED <<store, gen, req, written, txt, cli>>

\* ---- the read path: SupabaseService.get_first_scene and
\* ---- PreGenerationService.get_first_scene

\* As SupabaseGetFirstScene, without the is_successful filter of the query.
SupabaseGetFirstSceneAnyRow(S, portrait_id, build_type, readOk) ==
    LET matches == {r \in S : r.portrait_id = portrait_id /\ r.build_type = build_type}
    IN IF readOk /\ Cardinality(matches) = 1
       THEN [found |-> TRUE, row |-> CHOOSE r \in matches : TRUE]
       ELSE [found |-> FALSE, row |-> NoRow]

\* SupabaseService.get_first_scene: the one successful row of the key;
\* .single() raises unless exactly one row matches, and every exception,
\* a failed query included, is logged and answered with None.
SupabaseGetFirstScene(S, portrait_id, build_type, readOk) ==
    LET matches == {r \in S : /\ r.portrait_id = portrait_id
                              /\ r.build_type = build_type
                              /\ r.is_successful}
    IN IF readOk /\ Cardinality(matches) = 1
       THEN [found |-> TRUE, row |-> CHOOSE r \in matches : TRUE]
       ELSE [found |-> FALSE, row |-> NoRow]

\* The dict PreGenerationService.get_first_scene builds from the row.
SceneData(row) ==
    [narration |-> row.narration, visual_scene |-> row.visual_scene,
     image_url |-> row.image_url, audio_url |-> row.audio_url,
     choices |-> row.choices]

NoData == SceneData(NoRow)

\* As GetFirstScene, with a failed read raised to the caller.
GetFirstSceneRaising(S, portrait_id, build_type, readOk) ==
    LET d == SupabaseGetFirstScene(S, portrait_id, build_type, readOk)
    IN [found |-> d.found, data |-> IF d.found THEN SceneData(d.row) ELSE NoData,
        raised |-> ~readOk, row |-> d.row, queries |-> 1]

\* PreGenerationService.get_first_scene: the dict or None (found = FALSE), the
\* row it was read from and the number of row-store queries issued.
GetFirstScene(S, portrait_id, build_type, readOk) ==
    LET d == SupabaseGetFirstScene(S, portrait_id, build_type, readOk)
    IN [found |-> d.found, data |-> IF d.found THEN SceneData(d.row) ELSE NoData,
        raised |-> FALSE, row |-> d.row, queries |-> 1]

\* ---- the player-facing path of api/stories.py

\* The attributes of a Character object (models.py); reading another one
\* raises AttributeError.
CharacterFields ==
    {"id", "user_id", "name", "gender", "portrait_url", "full_body_url",
     "build_type", "hp", "xp", "level", "created_at", "updated_at"}
HasAttribute(name) == name \in CharacterFields

\* The portrait_url of the characters of the model and what lines 640-666 of
\* generate_first_scene_with_fallback make of each: a custom upload, a preset
\* file name mapped to its id, a file name mapped to an id that is no preset,
\* an empty url.
PortraitUrls ==
    {"uploads/custom_portrait_7.png", "presets/male_portrait_01.png",
     "presets/male_portrait_07.png", ""}
DetectPortrait(portrait_url) ==
    CASE portrait_url = "uploads/custom_portrait_7.png" ->
            [custom |-> TRUE, portrait_id |-> Null]
      [] portrait_url = "presets/male_portrait_01.png" ->
            [custom |-> FALSE, portrait_id |-> "m1"]
      [] portrait_url = "presets/male_portrait_07.png" ->
            [custom |-> FALSE, portrait_id |-> "m7"]
      [] OTHER -> [custom |-> FALSE, portrait_id |-> Null]

Characters == [portrait_url : PortraitUrls, build_type : {"warrior"}, full_body : {TRUE}]

\* StoryGenerateRequest: the keys of scene_context and previous_choice.
Requests ==
    {[scene_context |-> {}, previous_choice |-> Null],
     [scene_context |-> {"location"}, previous_choice |-> Null],
     [scene_context |-> {"location"}, previous_choice |-> "choice_1"]}

IsFirstScene(request) ==
    /\ request.scene_context # {}
    /\ \/ "Beginning of adventure" \in request.scene_context
       \/ "Awakening in forest" \in request.scene_context
       \/ request.previous_choice = Null

\* len() of the narrations of the model; a generated narration stands for a
\* text of ordinary length.
NarrationLength(narration) ==
    CASE narration = "" -> 0
      [] narration = Null -> 0
      [] narration = "Generation failed" -> 17
      [] OTHER -> 120

\* StoryScene(...) validates: narration of 50 to 1000 characters, 4 choices.
ValidStoryScene(narration, choices) ==
    /\ NarrationLength(narration) >= 50
    /\ NarrationLength(narration) <= 1000
    /\ Len(choices) = 4

StoryChoice(id, text, preview, consequence_hint) ==
    [id |-> id, text |-> text, preview |-> preview, consequence_hint |-> consequence_hint]

\* A StoryScene as it is returned; the model has no audio_url field, the
\* keyword is dropped.
StoryScene(scene_id, narration, image_url, choices) ==
    [scene_id |-> scene_id, narration |-> narration, image_url |-> image_url,
     choices |-> choices]

NoScene == StoryScene(Null, Null, Null, <<>>)

\* The fallback scene of generate_story_scene (lines 195-236).
PlaceholderScene ==
    StoryScene("scene_001", "placeholder narration", "/scenes/forest_awakening.jpg",
        << StoryChoice(1, "Try to stand up slowly and look around",
                       "Careful movement", "Assess the situation"),
           StoryChoice(2, "Check my belongings to see what's left",
                       "Inventory check", "Find what remains"),
           StoryChoice(3, "Listen carefully for any sounds or threats",
                       "Stay alert", "Detect danger early"),
           StoryChoice(4, "Rest a moment and try to remember something",
                       "Memory attempt", "Recover slowly") >>)

\* No request made yet. at is the table the request read, readOk whether the
\* row-store answered its query, generator what the story model answers when
\* called; status is the HTTP status of an endpoint, source where its scene
\* comes from, live whether generate_story_scene was entered, ports the
\* generator, synthesizer and blob-store calls the request made, first and
\* custom the is_first_scene and is_custom_portrait of the handler.
IdleReq ==
    [op |-> "none", portrait_id |-> Null, build_type |-> Null, readOk |-> TRUE,
     at |-> {}, queries |-> 0, found |-> FALSE, raised |-> FALSE,
     data |-> NoData, row |-> NoRow, status |-> 0, scene |-> NoScene,
     source |-> "none", live |-> FALSE, generator |-> "ok", storyCalls |-> 0,
     ports |-> 0, first |-> FALSE, custom |-> FALSE]

\* generate_all_first_scenes not called yet. combinations, i and results are
\* its locals; forces lists the force_regenerate flag of every invocation so
\* far, base is Len(calls) when the current one started, atStart the table and
\* readFailed the keys whose existence query failed at that moment; ports
\* counts the generator, synthesizer and blob-store calls and delays lists the
\* inter-batch sleeps of the current invocation.
NoSummary ==
    [status |-> "none", total_combinations |-> 0, already_generated |-> 0,
     newly_generated |-> 0, failed |-> 0, results |-> <<>>]

IdleGen ==
    [phase |-> "idle", force |-> FALSE, combinations |-> <<>>, i |-> 0,
     results |-> <<>>, summary |-> NoSummary, forces |-> <<>>, base |-> 0,
     atStart |-> {}, readFailed |-> {}, ports |-> 0, delays |-> <<>>]

\* Rows an earlier run may have left for the first combination.
OldSuccessRow ==
    Row(AllCombinations[1], "old narration", "old visual", Null, Null,
        <<"old one", "old two", "old three", "old four">>, 1, NoError, TRUE)
OldFailureRow ==
    Row(AllCombinations[1], "Generation failed", "Generation failed", Null, Null,
        <<>>, 2, TimeoutMsg, FALSE)
InitialStores == {{}, {OldSuccessRow}, {OldFailureRow}}

Init ==
    /\ store \in InitialStores
    /\ task = [t \in {1} |-> IdleTask]
    /\ calls = <<>>
    /\ gen = IdleGen
    /\ req = IdleReq
    /\ written = store
    /\ txt = IdleTxt
    /\ cli = IdleCli

\* One top-level call of generate_single_first_scene, every port outcome possible.
Next ==
    \/ \E key \in OneCombos : Call(key, 1)
    \/ Story(1, StoryOutcomes)
    \/ Image(1, ImageEnvs)
    \/ Audio(1, AudioEnvs)
    \/ StoreSuccess(1)
    \/ StoreFailure(1)
    \/ Wake(1)

Spec == Init /\ [][Next]_vars

\* ---- calls one after the other (SpecSeq): up to MaxCalls top-level calls; the
\* ---- ports answer from smaller sets.
GoodResponse == [narr |-> TRUE, vis |-> TRUE, lines |-> CHOICE_SLICE]
SeqStoryOutcomes ==
    {o \in StoryOutcomes : (o.kind = "ok" /\ o.resp = GoodResponse)
                           \/ (o.kind = "raise" /\ o.msg = TimeoutMsg)}
SeqImageEnvs == {e \in ImageEnvs : e.build = e.download /\ e.download = e.gen /\ e.gen = e.upload}
SeqAudioEnvs == {e \in AudioEnvs : e.speech /\ e.upload}

InitSeq ==
    /\ store = {}
    /\ task = [t \in {1} |-> IdleTask]
    /\ calls = <<>>
    /\ gen = IdleGen
    /\ req = IdleReq
    /\ written = store
    /\ txt = IdleTxt
    /\ cli = IdleCli

NextSeq ==
    \/ \E key \in OneCombos : Call(key, MaxCalls)
    \/ Story(1, SeqStoryOutcomes)
    \/ Image(1, SeqImageEnvs)
    \/ Audio(1, SeqAudioEnvs)
    \/ StoreSuccess(1)
    \/ StoreFailure(1)
    \/ Wake(1)

SpecSeq == InitSeq /\ [][NextSeq]_vars

\* ---- generate_all_first_scenes (SpecAll): up to MaxRuns invocations one after
\* ---- the other over the first NumCombos combinations.
Combinations == SubSeq(AllCombinations, 1, NumCombos)

\* The environment of SpecAll: the story model may time out for the keys of
\* StoryFlaky, the row-store may reject a write for the keys of WriteFlaky and
\* fail an existence query for the keys of ReadFlaky; the story-generator call
\* may end in asyncio.CancelledError, which is no Exception, for the keys of
\* CancelFlaky; everything else answers.
StoryFlaky == {AllCombinations[1], AllCombinations[NumCombos]}
WriteFlaky == {AllCombinations[2]}
ReadFlaky == {AllCombinations[3]}
CancelFlaky == {AllCombinations[4]}

CancelMsg == <<"CancelledError">>
CancelOutcome == [kind |-> "cancel", resp |-> GoodResponse, msg |-> CancelMsg]

AllStoryOutcomes(key) ==
    {o \in SeqStoryOutcomes : o.kind = "raise" => key \in StoryFlaky}
        \cup (IF key \in CancelFlaky THEN {CancelOutcome} ELSE {})
AllImageEnvs == {e \in SeqImageEnvs : e.gen}
AllWriteOutcomes(key) == IF key \in WriteFlaky THEN BOOLEAN ELSE {TRUE}

\* _needs_generation
NeedsGenerationAlways(S, key, force_regenerate, readOk) == TRUE
NeedsGeneration(S, key, force_regenerate, readOk) ==
    IF force_regenerate THEN TRUE
    ELSE ~CheckFirstSceneExists(S, key, readOk)

\* Lines 50-55: the combinations that need generation, in cross-product order.
ScanCombinations(S, force_regenerate, readFailed) ==
    LET Needs(key) == NeedsGeneration(S, key, force_regenerate, key \notin readFailed)
    IN SelectSeq(Combinations, Needs)

\* combinations[i:i + BATCH_SIZE], as the positions of its members.
BatchPositions(i, n) == (i + 1)..Min(i + BATCH_SIZE, n)

\* batch_tasks: the calls of the batch start, the other positions keep their task.
StartBatch(tasks, combinations, i) ==
    [j \in DOMAIN tasks |->
        IF j \in BatchPositions(i, Len(combinations))
        THEN NewTask(combinations[j]) ELSE tasks[j]]

BatchKeys(combinations, i) ==
    SubSeq(combinations, i + 1, Min(i + BATCH_SIZE, Len(combinations)))

\* A call has returned, or has raised (gather takes the exception as its result).
HasReturned(T) == T.pc \in {"done", "index error", "raised"}

\* What gather hands back for one task: the dict the call returned, or the
\* exception it raised (an object without the keys of the dict).
ExceptionResult(msg) == [NoResult EXCEPT !.error = msg, !.returned = TRUE]
GatherResult(T) == IF T.pc = "done" THEN T.result ELSE ExceptionResult(T.err)

\* isinstance(r, dict)
IsDict(r) == r.portrait_id # Null

\* asyncio.gather(*batch_tasks) returns when every task of the batch has.
GatherAny(tasks, i) ==
    \E j \in BatchPositions(i, Len(tasks)) : HasReturned(tasks[j])
Gathered(tasks, i) ==
    \A j \in BatchPositions(i, Len(tasks)) : HasReturned(tasks[j])

\* if i + self.BATCH_SIZE < len(combinations)
MoreBatches(i, n) == i + BATCH_SIZE < n

\* As Summary, failed counting only the result dicts without success.
SummaryOfDicts(combinations, results) ==
    LET successful == Cardinality({j \in DOMAIN results :
                                      IsDict(results[j]) /\ results[j].success})
    IN [status |-> "completed", total_combinations |-> Len(Combinations),
        already_generated |-> Len(Combinations) - Len(combinations),
        newly_generated |-> successful,
        failed |-> Len(SelectSeq(results, IsDict)) - successful,
        results |-> SelectSeq(results, IsDict)]

\* The summary returned after the last batch.
Summary(combinations, results) ==
    LET successful == Cardinality({j \in DOMAIN results :
                                      IsDict(results[j]) /\ results[j].success})
    IN [status |-> "completed", total_combinations |-> Len(Combinations),
        already_generated |-> Len(Combinations) - Len(combinations),
        newly_generated |-> successful, failed |-> Len(results) - successful,
        results |-> SelectSeq(results, IsDict)]

\* The summary returned when no combination needs generation.
EmptySummary ==
    [status |-> "completed", total_combinations |-> Len(Combinations),
     already_generated |-> Len(Combinations), newly_generated |-> 0, failed |-> 0,
     results |-> <<>>]

\* One attempt of generate_single_first_scene from the story step to its
\* upsert; a CancelledError passes the except Exception clause and ends the call.
AttemptStep(T, S, o, ienv, aenv, ok) ==
    LET s == StoryStep(T, o, o)
    IN IF o.kind = "cancel"
       THEN [store |-> S,
             task |-> [T EXCEPT !.pc = "raised", !.err = o.msg,
                                !.storyLog = Append(@, o.msg),
                                !.a = [@ EXCEPT !.story = 1]]]
       ELSE IF s.pc = "image"
            THEN StoreSuccessStep(AudioStep(ImageStep(s, ienv), aenv), S, ok)
            ELSE StoreFailureStep(s, S, ok)

\* The generator, synthesizer and blob-store calls one attempt made.
PortCalls(a) ==
    a.story + (IF a.image \in {"generated", "generation failed"} THEN 1 ELSE 0)
            + (IF a.speech THEN 1 ELSE 0) + Cardinality(a.uploads)

\* generate_all_first_scenes(force_regenerate) up to its first gather, or to
\* its early return when nothing needs generation.
StartAll(force_regenerate) ==
    /\ gen.phase \in {"idle", "done"}
    /\ Len(gen.forces) < MaxRuns
    /\ \E readFailed \in SUBSET ReadFlaky :
          LET combinations == ScanCombinations(store, force_regenerate, readFailed)
              G == [IdleGen EXCEPT !.force = force_regenerate,
                                   !.combinations = combinations,
                                   !.forces = Append(gen.forces, force_regenerate),
                                   !.base = Len(calls), !.atStart = store,
                                   !.readFailed = IF force_regenerate THEN {} ELSE readFailed]
              idle == [j \in 1..Len(combinations) |-> IdleTask]
          IN /\ force_regenerate => readFailed = {}
             /\ IF combinations = <<>>
                THEN /\ gen' = [G EXCEPT !.phase = "done", !.summary = EmptySummary]
                     /\ task' = idle
                     /\ calls' = calls
                ELSE /\ gen' = [G EXCEPT !.phase = "gather"]
                     /\ task' = StartBatch(idle, combinations, 0)
                     /\ calls' = calls \o BatchKeys(combinations, 0)
    /\ UNCHANGED <<store, req, written, txt, cli>>

\* One attempt of the call at position j.
Attempt(j) ==
    /\ j \in DOMAIN task
    /\ task[j].pc = "story"
    /\ \E o \in AllStoryOutcomes(task[j].key), ienv \in AllImageEnvs,
          aenv \in SeqAudioEnvs, ok \in AllWriteOutcomes(task[j].key) :
          \E r \in {AttemptStep(task[j], store, o, ienv, aenv, ok)} :
             /\ store' = r.store
             /\ task' = [task EXCEPT ![j] = r.task]
             /\ gen' = [gen EXCEPT !.ports = @ + PortCalls(r.task.a)]
             /\ written' = LastWrite(written, r.task.a)
    /\ UNCHANGED <<calls, req, txt, cli>>

\* The backoff sleep of the call at position j is over.
WakeOne(j) ==
    /\ j \in DOMAIN task
    /\ Wake(j)

\* gather returns: extend results, then sleep before the next batch or return
\* the summary.
Gather ==
    /\ gen.phase = "gather"
    /\ Gathered(task, gen.i)
    /\ LET n == Len(gen.combinations)
           results == gen.results \o
                      [k \in 1..Cardinality(BatchPositions(gen.i, n)) |->
                          GatherResult(task[gen.i + k])]
       IN gen' = IF MoreBatches(gen.i, n)
                 THEN [gen EXCEPT !.results = results, !.phase = "delay",
                                  !.delays = Append(@, BATCH_DELAY)]
                 ELSE [gen EXCEPT !.results = results, !.phase = "done",
                                  !.summary = Summary(gen.combinations, results)]
    /\ UNCHANGED <<store, task, calls, req, written, txt, cli>>

\* asyncio.sleep(3) is over: the next batch starts.
NextBatch ==
    /\ gen.phase = "delay"
    /\ LET i == gen.i + BATCH_SIZE
       IN /\ gen' = [gen EXCEPT !.i = i, !.phase = "gather"]
          /\ task' = StartBatch(task, gen.combinations, i)
          /\ calls' = calls \o BatchKeys(gen.combinations, i)
    /\ UNCHANGED <<store, req, written, txt, cli>>

InitAll ==
    /\ store = {}
    /\ task = <<>>
    /\ calls = <<>>
    /\ gen = IdleGen
    /\ req = IdleReq
    /\ written = store
    /\ txt = IdleTxt
    /\ cli = IdleCli

NextAll ==
    \/ \E force_regenerate \in BOOLEAN : StartAll(force_regenerate)
    \/ \E j \in 1..NumCombos : Attempt(j)
    \/ \E j \in 1..NumCombos : WakeOne(j)
    \/ Gather
    \/ NextBatch

SpecAll == InitAll /\ [][NextAll]_vars

\* ---- the read path next to one generate_single_first_scene call (SpecRead)

\* What the ports answer during one request: get_character (twice on the
\* fallback path), the first_scenes query, the story model, the image step.
RequestEnvs ==
    [character1 : BOOLEAN, character2 : BOOLEAN, readOk : BOOLEAN,
     story : SeqStoryOutcomes, image : {TRUE}]

\* "Always generate fresh narration": character.voice_id is read first, inside
\* a try whose except clause logs and goes on without audio; then one
\* speech-synthesizer call and one upload.
FreshNarrationCalls == IF HasAttribute("voice_id") THEN 2 ELSE 0

\* generate_story_scene (POST /generate): status, scene, where the scene comes
\* from, the story-generator calls and all the port calls made.
GenerateStoryScene(character, env) ==
    IF ~env.character2
    THEN [status |-> 404, scene |-> NoScene, source |-> "none", storyCalls |-> 0,
          ports |-> 0]
    ELSE IF ~HasAttribute("personality")
    THEN [status |-> 500, scene |-> NoScene, source |-> "none", storyCalls |-> 0,
          ports |-> 0]
    ELSE IF env.story.kind # "ok"
    THEN [status |-> 200, scene |-> PlaceholderScene, source |-> "placeholder",
          storyCalls |-> 1, ports |-> 1]
    ELSE LET story_data == ParseStoryResponse(env.story.resp)
             choices == [i \in DOMAIN story_data.choices |->
                            StoryChoice(i, story_data.choices[i], "", "")]
             image_url == IF ~character.full_body THEN "/scenes/default.jpg"
                          ELSE IF env.image THEN UrlOf("scene bytes")
                          ELSE "full body url"
             ports == 1 + (IF character.full_body THEN (IF env.image THEN 2 ELSE 1) ELSE 0)
                        + FreshNarrationCalls
         IN IF ValidStoryScene(story_data.narration, choices)
            THEN [status |-> 200,
                  scene |-> StoryScene("scene", story_data.narration, image_url, choices),
                  source |-> "live", storyCalls |-> 1, ports |-> ports]
            ELSE [status |-> 200, scene |-> PlaceholderScene,
                  source |-> "placeholder", storyCalls |-> 1, ports |-> ports]

\* As Eligible, without the test that the id is one of the presets.
EligibleAnyId(request, d) ==
    /\ IsFirstScene(request)
    /\ ~d.custom
    /\ d.portrait_id # Null

\* Line 672: the pre-generated scene is looked up.
Eligible(request, d) ==
    /\ IsFirstScene(request)
    /\ ~d.custom
    /\ d.portrait_id # Null
    /\ \E k \in DOMAIN PORTRAIT_IDS : PORTRAIT_IDS[k] = d.portrait_id

\* generate_first_scene_with_fallback (POST /generate-first-scene) on table S.
GenerateFirstSceneWithFallback(S, character, request, env) ==
    LET d == DetectPortrait(character.portrait_url)
        eligible == Eligible(request, d)
        g == GetFirstScene(S, d.portrait_id, character.build_type, env.readOk)
        choices == [i \in DOMAIN g.data.choices |->
                       StoryChoice(g.data.choices[i].id, g.data.choices[i].text, "", "")]
        image_url == IF g.data.image_url # Null THEN g.data.image_url
                     ELSE "/scenes/default.jpg"
        asked == [IdleReq EXCEPT !.op = "generate-first-scene",
                                 !.portrait_id = d.portrait_id,
                                 !.build_type = character.build_type,
                                 !.generator = env.story.kind,
                                 !.first = IsFirstScene(request),
                                 !.custom = d.custom]
        looked == IF eligible
                  THEN [asked EXCEPT !.readOk = env.readOk, !.at = S,
                                     !.queries = g.queries, !.found = g.found,
                                     !.raised = g.raised, !.data = g.data, !.row = g.row]
                  ELSE asked
        l == GenerateStoryScene(character, env)
    IN IF ~env.character1 THEN [asked EXCEPT !.status = 404]
       ELSE IF eligible /\ ~g.raised /\ g.found
                        /\ ValidStoryScene(g.data.narration, choices)
       THEN [looked EXCEPT !.status = 200, !.source = "pregenerated",
                           !.scene = StoryScene("first_scene", g.data.narration,
                                                image_url, choices),
                           !.ports = FreshNarrationCalls]
       ELSE [looked EXCEPT !.live = TRUE, !.status = l.status, !.scene = l.scene,
                           !.source = l.source, !.storyCalls = l.storyCalls,
                           !.ports = l.ports + (IF eligible /\ g.found
                                                THEN FreshNarrationCalls ELSE 0)]


\* The keys the read path is asked for: the combinations of OneCombos and a
\* portrait id that is no preset.
ResolverKeys == OneCombos \cup {<<"custom", "warrior">>}

\* A caller awaits scene_pregenerator.get_first_scene(portrait_id, build_type).
Resolve(key) ==
    /\ \E readOk \in BOOLEAN :
          LET g == GetFirstScene(store, key[1], key[2], readOk)
          IN req' = [IdleReq EXCEPT !.op = "get_first_scene", !.portrait_id = key[1],
                                    !.build_type = key[2], !.readOk = readOk,
                                    !.at = store, !.queries = g.queries,
                                    !.found = g.found, !.raised = g.raised,
                                    !.data = g.data, !.row = g.row]
    /\ UNCHANGED <<store, task, calls, gen, written, txt, cli>>

\* A player asks for the first scene of a character.
FirstSceneRequest ==
    /\ \E character \in Characters, request \in Requests, env \in RequestEnvs :
          req' = GenerateFirstSceneWithFallback(store, character, request, env)
    /\ UNCHANGED <<store, task, calls, gen, written, txt, cli>>

InitRead ==
    /\ store \in InitialStores
    /\ task = [t \in {1} |-> IdleTask]
    /\ calls = <<>>
    /\ gen = IdleGen
    /\ req = IdleReq
    /\ written = store
    /\ txt = IdleTxt
    /\ cli = IdleCli

\* The story model of SpecRead may also answer with three CHOICE_ lines.
ReadStoryOutcomes ==
    SeqStoryOutcomes \cup
    {o \in StoryOutcomes : o.kind = "ok" /\ o.resp.narr /\ o.resp.vis
                                        /\ o.resp.lines = CHOICE_SLICE - 1}

NextRead ==
    \/ \E key \in OneCombos : Call(key, 1)
    \/ Story(1, ReadStoryOutcomes)
    \/ Image(1, SeqImageEnvs)
    \/ Audio(1, SeqAudioEnvs)
    \/ StoreSuccess(1)
    \/ StoreFailure(1)
    \/ Wake(1)
    \/ \E key \in ResolverKeys : Resolve(key)
    \/ FirstSceneRequest

SpecRead == InitRead /\ [][NextRead]_vars

\* ---- two writers of one combination (SpecRace): a generate_all batch task
\* ---- and another generate_single_first_scene call for the same key, their
\* ---- steps interleaved at every await.
Writers == {1, 2}
RaceKey == AllCombinations[1]

\* What the image step meets in SpecRace: everything works, or no build image.
RaceImageEnvs == {e \in SeqImageEnvs : e.gen} \cup
                 {[build |-> FALSE, download |-> TRUE, gen |-> TRUE, upload |-> TRUE]}

\* Both writers are started.
Race ==
    /\ \A t \in Writers : task[t].pc = "idle"
    /\ task' = [t \in Writers |-> NewTask(RaceKey)]
    /\ calls' = calls \o [t \in Writers |-> RaceKey]
    /\ UNCHANGED <<store, gen, req, written, txt, cli>>

InitRace ==
    /\ store \in {{}, {OldSuccessRow}}
    /\ task = [t \in Writers |-> IdleTask]
    /\ calls = <<>>
    /\ gen = IdleGen
    /\ req = IdleReq
    /\ written = store
    /\ txt = IdleTxt
    /\ cli = IdleCli

NextRace ==
    \/ Race
    \/ \E t \in Writers : Story(t, SeqStoryOutcomes)
    \/ \E t \in Writers : Image(t, RaceImageEnvs)
    \/ \E t \in Writers : Audio(t, SeqAudioEnvs)
    \/ \E t \in Writers : StoreSuccess(t)
    \/ \E t \in Writers : StoreFailure(t)
    \/ \E t \in Writers : Wake(t)

SpecRace == InitRace /\ [][NextRace]_vars

\* ---- one generate_single_first_scene call against a story-generator that
\* ---- accepts nothing but the generic description (SpecStrict)

\* The inputs of the first story-generator call of an attempt.
StoryInput(key) == [desc |-> CharacterDesc(key), ctx |-> SceneContext]

\* What such a story-generator answers to an input: any response text for the
\* generic description, a content-safety error for everything else.
StrictAnswers(input) ==
    IF input.desc = GenericDescription /\ input.ctx = GenericDescription
    THEN {o \in StoryOutcomes : o.kind = "ok"}
    ELSE {o \in StoryOutcomes : o.kind = "raise" /\ IsSafetyError(o.msg)}

\* The story step of slot t with each call answered according to its input.
StoryStrict(t) ==
    /\ task[t].pc = "story"
    /\ \E o1 \in StrictAnswers(StoryInput(task[t].key)), o2 \in StoryOutcomes :
          \E T \in {StoryStep(task[t], o1, o2)} :
             /\ o2 \in (IF T.a.story = 2 THEN StrictAnswers(T.a.input) ELSE {o1})
             /\ task' = [task EXCEPT ![t] = T]
    /\ UNCHANGED <<store, calls, gen, req, written, txt, cli>>

NextStrict ==
    \/ \E key \in OneCombos : Call(key, 1)
    \/ StoryStrict(1)
    \/ Image(1, ImageEnvs)
    \/ Audio(1, AudioEnvs)
    \/ StoreSuccess(1)
    \/ StoreFailure(1)
    \/ Wake(1)

\* Every awaited port call answers and every sleep ends.
SpecStrict == Init /\ [][NextStrict]_vars /\ WF_vars(NextStrict)

\* ---- the sanitizer on its own (SpecText): a text of up to MaxLen tokens is
\* ---- sanitized, and the result sanitized again, or sanitized progressively.
Vocabulary ==
    {"dead", "body", Gap, "blood", "torturing", "extremely", "amnesia", "Awakening"}

RECURSIVE TextsOfLength(_)
TextsOfLength(n) ==
    IF n = 0 THEN {<<>>}
    ELSE {Append(x, tok) : x \in TextsOfLength(n - 1), tok \in Vocabulary}

Texts == UNION {TextsOfLength(n) : n \in 0..MaxLen}

\* content_sanitizer.sanitize_for_image_generation(text)
Sanitize ==
    /\ txt.op = "none"
    /\ txt' = [txt EXCEPT !.op = "sanitize", !.passes = 1,
                          !.out = SanitizeForImageGeneration(txt.input)]
    /\ UNCHANGED <<store, task, calls, gen, req, written, cli>>

\* The result is sanitized once more.
SanitizeAgain ==
    /\ txt.op = "sanitize"
    /\ txt.passes = 1
    /\ txt' = [txt EXCEPT !.passes = 2, !.again = SanitizeForImageGeneration(txt.out)]
    /\ UNCHANGED <<store, task, calls, gen, req, written, cli>>

\* _apply_progressive_sanitization(text, retry_count)
Progressive(retry_count) ==
    /\ txt.op = "none"
    /\ txt' = [txt EXCEPT !.op = "progressive", !.k = retry_count, !.passes = 1,
                          !.out = ApplyProgressiveSanitization(txt.input, retry_count)]
    /\ UNCHANGED <<store, task, calls, gen, req, written, cli>>

InitText ==
    /\ store = {}
    /\ task = <<>>
    /\ calls = <<>>
    /\ gen = IdleGen
    /\ req = IdleReq
    /\ written = store
    /\ txt \in {[IdleTxt EXCEPT !.input = x] : x \in Texts}
    /\ cli = IdleCli

NextText ==
    \/ Sanitize
    \/ SanitizeAgain
    \/ \E retry_count \in 0..MAX_RETRIES : Progressive(retry_count)

SpecText == InitText /\ [][NextText]_vars

\* ---- scripts/pregenerate_scenes.py (SpecCli): one run of main with its
\* ---- arguments and the outcome of the generation it starts.
\* total_combinations <= 4: the script generates the combinations itself.
SMALL_RUN == 4
\* success_rate >= 50 gives exit code 1.
PARTIAL_RATE == 50

Args ==
    [portrait_id : {Null, "m1"}, build_type : {Null, "warrior"},
     force : BOOLEAN, dry_run : BOOLEAN]

\* The combinations main lists for its filter.
CliCombinations(args) ==
    IF args.portrait_id # Null /\ args.build_type # Null
        THEN << <<args.portrait_id, args.build_type>> >>
    ELSE IF args.portrait_id # Null
        THEN [k \in 1..Len(BUILD_TYPES) |-> <<args.portrait_id, BUILD_TYPES[k]>>]
    ELSE IF args.build_type # Null
        THEN [k \in 1..Len(PORTRAIT_IDS) |-> <<PORTRAIT_IDS[k], args.build_type>>]
    ELSE AllCombinations

\* main generates the combinations itself (one generate_single_first_scene
\* each) or hands the run to generate_all_first_scenes.
UsesService(args) == Len(CliCombinations(args)) > SMALL_RUN

\* Per combination of a small run, whether generate_single_first_scene
\* returned success.
CliResults(args) ==
    IF args.dry_run \/ UsesService(args) THEN {<<>>}
    ELSE [1..Len(CliCombinations(args)) -> BOOLEAN]

\* The combinations that have a successful row when the script starts.
ExistingRows ==
    {{}, {AllCombinations[1]}, {AllCombinations[1], AllCombinations[Len(AllCombinations)]}}

\* The combinations generate_all_first_scenes(force_regenerate) calls
\* generate_single_first_scene for: it scans all the combinations of the
\* service, whatever the filter of the script (every existence query of the
\* scan is answered).
ServiceCombinations(force_regenerate, existing) ==
    {AllCombinations[k] : k \in DOMAIN AllCombinations} \
        (IF force_regenerate THEN {} ELSE existing)

\* What generate_all_first_scenes(force_regenerate) may return.
ServiceSummaries(force_regenerate, existing) ==
    LET total == Len(AllCombinations)
        already == total - Cardinality(ServiceCombinations(force_regenerate, existing))
    IN {CliSummary(total, already, newly, (total - already) - newly) :
            newly \in 0..(total - already)}

CliSummaries(args, existing) ==
    IF args.dry_run \/ ~UsesService(args) THEN {CliSummary(0, 0, 0, 0)}
    ELSE ServiceSummaries(args.force, existing)

\* The combinations generate_single_first_scene is called for in one run.
Generated(args, existing) ==
    IF UsesService(args) THEN ServiceCombinations(args.force, existing)
    ELSE {CliCombinations(args)[k] : k \in DOMAIN CliCombinations(args)}

\* The summary main builds from the results of a small run.
SmallRunSummary(total_combinations, results) ==
    LET successful == Cardinality({i \in DOMAIN results : results[i]})
    IN CliSummary(total_combinations, 0, successful, Len(results) - successful)

\* The exit code main computes from the summary.  success_rate is
\* newly_generated / max(total_combinations - already_generated, 1) * 100; with
\* counts of at most 32 the comparison with 50 is exact in integers.
ExitCode(total_combinations, summary) ==
    LET remaining == total_combinations - summary.already_generated
        denominator == IF remaining > 1 THEN remaining ELSE 1
    IN IF summary.failed = 0 THEN 0
       ELSE IF summary.newly_generated * 100 >= PARTIAL_RATE * denominator THEN 1
       ELSE 2

\* main: a dry run lists the combinations and returns; otherwise the
\* combinations are generated and the process exits with the tiered code.
Main(args, existing, results, summary) ==
    /\ cli.op = "none"
    /\ LET total_combinations == Len(CliCombinations(args))
           s == IF UsesService(args) THEN summary
                ELSE SmallRunSummary(total_combinations, results)
       IN cli' = IF args.dry_run
                 THEN [cli EXCEPT !.op = "dry run", !.args = args,
                                  !.total_combinations = total_combinations,
                                  !.existing = existing]
                 ELSE [op |-> "main", args |-> args,
                       total_combinations |-> total_combinations,
                       service |-> UsesService(args), summary |-> s,
                       exit |-> ExitCode(total_combinations, s),
                       existing |-> existing,
                       generated |-> Generated(args, existing)]
    /\ UNCHANGED <<store, task, calls, gen, req, written, txt>>

InitCli ==
    /\ store = {}
    /\ task = <<>>
    /\ calls = <<>>
    /\ gen = IdleGen
    /\ req = IdleReq
    /\ written = store
    /\ txt = IdleTxt
    /\ cli = IdleCli

NextCli ==
    \E args \in Args, existing \in ExistingRows :
        \E results \in CliResults(args), summary \in CliSummaries(args, existing) :
            Main(args, existing, results, summary)

SpecCli == InitCli /\ [][NextCli]_vars

\* ------------------------------------------------------------------ claims
\* The call in slot 1 of Spec.
T1 == task[1]

IsNonSafetyFailure(ans) == ans \in ErrorMessages /\ ~IsSafetyError(ans)
IsSafetyFailure(ans) == ans \in ErrorMessages /\ IsSafetyError(ans)

\* The answers to the story-generator calls of the current attempt.
AttemptAnswers(T) ==
    SubSeq(T.storyLog, Len(T.storyLog) - T.a.story + 1, Len(T.storyLog))

RowsOf(S, key) == {r \in S : r.portrait_id = key[1] /\ r.build_type = key[2]}

\* C1: one top-level call of generate_single_first_scene runs at most
\* MAX_RETRIES attempts; it sleeps only after a failed attempt n with
\* n < MAX_RETRIES - 1, for RETRY_DELAYS[n] seconds (the index is always in
\* range), and never after the final attempt.
C1_RetryBound ==
    /\ T1.attempts <= MAX_RETRIES
    /\ T1.attempts = (IF T1.pc = "idle" THEN 0 ELSE T1.n + 1)
    /\ T1.pc # "index error"
    /\ Len(T1.sleeps) <= MAX_RETRIES - 1
    /\ \A k \in DOMAIN T1.sleeps : k \in DOMAIN RETRY_DELAYS /\ T1.sleeps[k] = RETRY_DELAYS[k]
    /\ T1.pc = "sleep" =>
          /\ T1.err # NoError
          /\ T1.n < MAX_RETRIES - 1
          /\ Len(T1.sleeps) = T1.n + 1
    /\ T1.pc # "sleep" => Len(T1.sleeps) = T1.n
    /\ T1.result.returned => Len(T1.sleeps) = T1.attempts - 1

C1_Witness ==
    /\ T1.pc = "done"
    /\ ~T1.result.success
    /\ T1.attempts = MAX_RETRIES
    /\ T1.sleeps = <<2, 5>>

\* C2: every task result and every persisted row with is_successful = true has
\* exactly 4 choices and a non-empty narration, whatever the story-generator
\* returned.
C2_SuccessHasFourChoices ==
    /\ (T1.result.returned /\ T1.result.success) =>
          Len(T1.story.choices) = 4 /\ T1.story.narration # ""
    /\ \A r \in store : r.is_successful => Len(r.choices) = 4 /\ r.narration # ""

\* The generate_single_first_scene calls of the current generate_all invocation.
StartedThisRun == SubSeq(calls, gen.base + 1, Len(calls))

\* The current invocation and the one before it both had force_regenerate = false.
SecondRunUnforced ==
    /\ Len(gen.forces) >= 2
    /\ ~gen.forces[Len(gen.forces)]
    /\ ~gen.forces[Len(gen.forces) - 1]

HasSuccessfulRow(S, key) == \E r \in RowsOf(S, key) : r.is_successful

\* C3 as stated: a second generate_all with force_regenerate = false, right
\* after a first one, calls generate_one for no combination and makes no
\* story-generator, image-generator, speech-synthesizer or blob-store call.
C3_SecondRunGeneratesNothing ==
    SecondRunUnforced => StartedThisRun = <<>> /\ gen.ports = 0

\* C3 amended: such a second invocation calls generate_one only for, and by
\* its end for all of, the combinations whose existence check at its start
\* found no successful row or failed; every port call belongs to one of these
\* calls, so that it makes none at all and leaves the table alone when every
\* combination has a successful row and every check answers.
C3_SecondRunGeneratesUnsatisfied ==
    SecondRunUnforced =>
        LET Unsatisfied(key) ==
                ~HasSuccessfulRow(gen.atStart, key) \/ key \in gen.readFailed
            todo == SelectSeq(Combinations, Unsatisfied)
        IN /\ gen.combinations = todo
           /\ StartedThisRun = SubSeq(todo, 1, Len(StartedThisRun))
           /\ gen.phase = "done" => StartedThisRun = todo
           /\ StartedThisRun = <<>> => gen.ports = 0
           /\ todo = <<>> =>
                 /\ gen.phase = "done"
                 /\ gen.ports = 0
                 /\ store = gen.atStart
                 /\ gen.summary.already_generated = Len(Combinations)

C3_Witness ==
    /\ SecondRunUnforced
    /\ gen.phase = "done"
    /\ gen.combinations = <<>>
    /\ Len(calls) = NumCombos
    /\ gen.ports = 0

\* C4: an attempt whose text generation succeeded ends in success, whatever
\* the image and audio steps do: it never fails, never sleeps and never starts
\* another attempt, it returns success = true with the attempt's retry_count,
\* and the one upsert it issues carries is_successful = true.
C4_TextSuccessIsSuccess ==
    T1.story # NoStory =>
        /\ T1.pc \in {"image", "audio", "store", "done"}
        /\ T1.err = NoError
        /\ Len(T1.sleeps) = T1.n
        /\ T1.pc = "done" =>
              /\ T1.result.returned /\ T1.result.success
              /\ T1.result.retry_count = T1.n
              /\ T1.result.has_image = (T1.image_url # Null)
              /\ T1.result.has_audio = (T1.audio_url # Null)
              /\ T1.a.upserts = 1
              /\ T1.a.row.is_successful
              /\ T1.a.row.retry_count = T1.n
              /\ T1.a.accepted => RowsOf(store, T1.key) = {T1.a.row}

C4_Witness ==
    /\ T1.pc = "done"
    /\ T1.result.success
    /\ T1.a.image = "download failed"
    /\ T1.a.speech /\ T1.audio_url = Null
    /\ T1.a.accepted

\* C5: whenever the image-generator call fails in an attempt, the task has no
\* image: the image step returns null, the row carries a null image_url and no
\* blob is uploaded as the scene image.
C5_ImageFailureMeansNoImage ==
    T1.a.image = "generation failed" =>
        /\ T1.image_url = Null
        /\ T1.a.uploads \cap {"scene bytes", "character bytes"} = {}
        /\ T1.a.upserts > 0 => T1.a.row.image_url = Null

\* C6 as stated: if every story-generator call fails with a non-safety error,
\* the call makes exactly MAX_RETRIES story-generator calls, one per attempt,
\* and returns success = false with retry_count = MAX_RETRIES - 1 and the last
\* failure's message; the persisted row has is_successful = false and the same
\* retry_count and last_error.
AllNonSafety(T) == \A i \in DOMAIN T.storyLog : IsNonSafetyFailure(T.storyLog[i])

C6_Engine(T) ==
    AllNonSafety(T) =>
        /\ T.a.story <= 1
        /\ Len(T.storyLog) <= MAX_RETRIES
        /\ T.pc = "story" => Len(T.storyLog) = T.attempts - 1
        /\ T.pc # "story" => Len(T.storyLog) = T.attempts
        /\ T.result.returned =>
              /\ Len(T.storyLog) = MAX_RETRIES
              /\ ~T.result.success
              /\ T.result.retry_count = MAX_RETRIES - 1
              /\ T.result.error = T.storyLog[Len(T.storyLog)]

C6_RowAgrees(T, S) ==
    \E r \in S :
        /\ RowsOf(S, T.key) = {r}
        /\ ~r.is_successful
        /\ r.retry_count = T.result.retry_count
        /\ r.last_error = T.result.error

C6_AllFailPersisted ==
    /\ C6_Engine(T1)
    /\ (AllNonSafety(T1) /\ T1.result.returned) => C6_RowAgrees(T1, store)

\* C6 amended: as C6, the row being the one the final attempt hands to the
\* row-store; it is the row of the key in the store whenever the row-store
\* accepted that write.
C6_AllFailUpserted ==
    /\ C6_Engine(T1)
    /\ (AllNonSafety(T1) /\ T1.result.returned) =>
          /\ T1.a.upserts = 1
          /\ ~T1.a.row.is_successful
          /\ T1.a.row.retry_count = T1.result.retry_count
          /\ T1.a.row.last_error = T1.result.error
          /\ T1.a.accepted => C6_RowAgrees(T1, store)

C6_Witness ==
    /\ T1.result.returned
    /\ T1.storyLog = <<TimeoutMsg, TimeoutMsg, QuotaMsg>>
    /\ T1.a.accepted
    /\ T1.result.error = QuotaMsg

\* C7: when the first story-generator call of attempt n fails with a safety
\* error, the call is made once more in the same attempt with the description
\* and the context sanitized at level n, and never a third time; when that
\* second call succeeds the task ends in success with retry_count = n and
\* without a backoff sleep for this attempt.
SanitizedContext(n) ==
    CASE n = 0 -> <<"Awakening", "in", "forest", "clearing", "after", "bandit",
                    "approach", ",", "amnesia", "scenario">>
      [] n = 1 -> <<"Awakening", "in", "forest", "clearing", "after", "bandit",
                    "approach", ",", "memory", "loss", "scenario">>
      [] OTHER -> GenericDescription

C7_SafetyRetryOnce ==
    LET ans == AttemptAnswers(T1)
    IN /\ T1.a.story <= 2
       /\ (T1.a.story >= 1 /\ IsSafetyFailure(ans[1])) =>
             /\ T1.a.story = 2
             /\ T1.a.input.ctx = SanitizedContext(T1.n)
             /\ T1.a.input.desc = (IF T1.n >= 2 THEN GenericDescription
                                   ELSE CharacterDesc(T1.key))
       /\ T1.a.story = 2 => IsSafetyFailure(ans[1])
       /\ (T1.a.story = 2 /\ ans[2] = <<"ok">>) =>
             /\ T1.pc \in {"image", "audio", "store", "done"}
             /\ T1.attempts = T1.n + 1
             /\ Len(T1.sleeps) = T1.n
             /\ T1.pc = "done" =>
                   T1.result.success /\ T1.result.retry_count = T1.n

C7_Witness ==
    /\ T1.pc = "done"
    /\ T1.result.success
    /\ T1.n = 1
    /\ AttemptAnswers(T1) = <<SafetyMsg, <<"ok">> >>
    /\ T1.a.input.ctx # SceneContext

\* C8 as stated: every attempt issues exactly one upsert, before the backoff
\* sleep and before the next attempt; hence while the call sleeps or has
\* returned, the row of the key has the retry_count, is_successful and
\* last_error of the most recent attempt.
C8_OneUpsertPerAttempt(T) ==
    /\ T.pc \in {"sleep", "done"} => T.a.upserts = 1 /\ T.upserts = T.attempts
    /\ T.pc \in {"story", "image", "audio", "store", "failed"} =>
          T.a.upserts = 0 /\ T.upserts = T.attempts - 1

C8_RowIsLatest(T, S) ==
    \E r \in S :
        /\ RowsOf(S, T.key) = {r}
        /\ r.retry_count = T.n
        /\ r.is_successful = (T.err = NoError)
        /\ r.last_error = T.err

C8_RowReflectsLatest ==
    /\ C8_OneUpsertPerAttempt(T1)
    /\ T1.pc \in {"sleep", "done"} => C8_RowIsLatest(T1, store)

\* C8 amended: as C8, the row being that of the most recent attempt whenever
\* the row-store accepted that attempt's upsert (a failed write is logged and
\* leaves the table as it was).
C8_RowReflectsLatestAccepted ==
    /\ C8_OneUpsertPerAttempt(T1)
    /\ T1.pc \in {"sleep", "done"} =>
          /\ T1.a.row.retry_count = T1.n
          /\ T1.a.row.is_successful = (T1.err = NoError)
          /\ T1.a.row.last_error = T1.err
          /\ T1.a.accepted => C8_RowIsLatest(T1, store) /\ T1.a.row \in store

C8_Witness ==
    /\ T1.pc = "sleep"
    /\ T1.n = 1
    /\ T1.a.accepted
    /\ OldSuccessRow \notin store
    /\ T1.key = AllCombinations[1]

\* C9 as stated: the table never holds two rows of one (portrait_id,
\* build_type) key; when two calls of generate_single_first_scene for the same
\* combination have been made one after the other, the table holds exactly one
\* row of the key, with the fields of the latest attempt of the second call.
C9_OneRowPerKey == \A r \in store, q \in store : SameKey(r, q) => r = q

C9_SecondCallReturned ==
    /\ Len(calls) >= 2
    /\ calls[Len(calls)] = calls[Len(calls) - 1]
    /\ T1.result.returned

C9_LatestAttemptRow(T) ==
    /\ T.a.upserts = 1
    /\ T.a.row.retry_count = T.n
    /\ T.a.row.is_successful = T.result.success
    /\ T.a.row.last_error = T.result.error
    /\ T.a.row.narration = (IF T.result.success THEN T.story.narration ELSE "Generation failed")
    /\ T.a.row.image_url = T.image_url
    /\ T.a.row.audio_url = T.audio_url

C9_UpsertOverwrite ==
    /\ C9_OneRowPerKey
    /\ C9_SecondCallReturned =>
          C9_LatestAttemptRow(T1) /\ RowsOf(store, T1.key) = {T1.a.row}

\* C9 amended: at most one row per key, always; after the two calls the row of
\* the key is the one written by the latest attempt of the second call
\* whenever the row-store accepted that attempt's upsert (when it did not, the
\* table is as the last accepted upsert left it, possibly without a row).
C9_UpsertOverwriteAccepted ==
    /\ C9_OneRowPerKey
    /\ C9_SecondCallReturned =>
          /\ C9_LatestAttemptRow(T1)
          /\ T1.a.accepted => RowsOf(store, T1.key) = {T1.a.row}

C9_Witness ==
    /\ C9_SecondCallReturned
    /\ T1.a.accepted
    /\ T1.result.success
    /\ T1.n = 1
    /\ T1.image_url # Null

\* The batch (0, 1, ...) of the combination at position j.
BatchOf(j) == (j - 1) \div BATCH_SIZE
InFlight(j) == task[j].pc # "idle" /\ ~HasReturned(task[j])

\* C10: the combinations are cut into consecutive batches of at most
\* BATCH_SIZE; all in-flight generate_one calls belong to the current batch; a
\* call of a later batch has started only when every call of the batches
\* before has returned, retries included, and the delay after each of them
\* has been slept; the delay is slept once per batch that has a successor and
\* not after the last batch.
C10_BatchesSequential ==
    gen.phase # "idle" =>
        LET n == Len(gen.combinations)
            cur == gen.i \div BATCH_SIZE
            batches == (n + BATCH_SIZE - 1) \div BATCH_SIZE
        IN /\ DOMAIN task = 1..n
           /\ gen.i % BATCH_SIZE = 0
           /\ n > 0 => gen.i < n
           /\ \A j \in 1..n :
                 /\ task[j].pc # "idle" => task[j].key = gen.combinations[j]
                 /\ InFlight(j) => BatchOf(j) = cur /\ gen.phase = "gather"
                 /\ task[j].pc # "idle" <=> BatchOf(j) <= cur
           /\ Cardinality({j \in 1..n : InFlight(j)}) <= BATCH_SIZE
           /\ \A j, k \in 1..n :
                 (task[k].pc # "idle" /\ BatchOf(j) < BatchOf(k)) =>
                     /\ HasReturned(task[j])
                     /\ Len(gen.delays) >= BatchOf(k)
           /\ Len(gen.delays) = cur + (IF gen.phase = "delay" THEN 1 ELSE 0)
           /\ \A d \in DOMAIN gen.delays : gen.delays[d] = BATCH_DELAY
           /\ gen.phase = "delay" =>
                 /\ gen.i + BATCH_SIZE < n
                 /\ \A j \in 1..n : task[j].pc # "idle" => HasReturned(task[j])
           /\ gen.phase = "done" =>
                 /\ \A j \in 1..n : HasReturned(task[j])
                 /\ n > 0 => Len(gen.delays) = batches - 1
                 /\ Len(gen.results) = n
           /\ \A r \in DOMAIN gen.results : gen.results[r].returned
           /\ Len(StartedThisRun) = Cardinality({j \in 1..n : task[j].pc # "idle"})

C10_Witness ==
    /\ gen.phase = "gather"
    /\ gen.i = BATCH_SIZE
    /\ gen.delays = <<BATCH_DELAY>>
    /\ task[1].attempts = MAX_RETRIES
    /\ \E j \in DOMAIN task : BatchOf(j) = 1 /\ task[j].pc = "sleep"

\* The position of every element of s that is an element of K.
Occurrences(s, K) == {p \in DOMAIN s : s[p] \in K}

\* The combinations with a successful row in table S, out of those of SpecAll.
Satisfied(S) == {p \in DOMAIN Combinations : HasSuccessfulRow(S, Combinations[p])}

\* C11 as stated: generate_all(force_regenerate = false) calls generate_one
\* exactly once for each combination without a successful row and never for a
\* combination that has one, and reports as already_generated the number of
\* combinations that have a successful row.
C11_GeneratesExactlyMissing ==
    (gen.phase = "done" /\ ~gen.force) =>
        /\ \A p \in DOMAIN Combinations :
              Cardinality(Occurrences(StartedThisRun, {Combinations[p]}))
                 = (IF p \in Satisfied(gen.atStart) THEN 0 ELSE 1)
        /\ gen.summary.already_generated = Cardinality(Satisfied(gen.atStart))

\* C11 amended: the same for the combinations whose existence query answers; a
\* combination whose query fails is generated once too, successful row or not,
\* and is not counted in already_generated.
C11_GeneratesMissingOrUnread ==
    (gen.phase = "done" /\ ~gen.force) =>
        LET skipped == {p \in Satisfied(gen.atStart) :
                           Combinations[p] \notin gen.readFailed}
        IN /\ \A p \in DOMAIN Combinations :
                 Cardinality(Occurrences(StartedThisRun, {Combinations[p]}))
                    = (IF p \in skipped THEN 0 ELSE 1)
           /\ gen.summary.already_generated = Cardinality(skipped)
           /\ gen.summary.total_combinations = Len(Combinations)
           /\ gen.readFailed = {} => skipped = Satisfied(gen.atStart)

C11_Witness ==
    /\ gen.phase = "done" /\ ~gen.force
    /\ gen.readFailed = {}
    /\ gen.summary.already_generated = NumCombos - 1
    /\ Len(StartedThisRun) = 1
    /\ gen.ports > 0

\* The call at position j ended without a scene: it returned a failure or raised.
Unsuccessful(T) == HasReturned(T) /\ ~(T.pc = "done" /\ T.result.success)

\* C12: generate_all always ends with a summary, whatever the ports do; every
\* combination whose generation did not succeed, one whose task raised
\* included, is counted in failed and has a failed entry with its error
\* message in the results list of the summary.
C12_FailuresReported ==
    (gen.phase = "done" /\ gen.combinations # <<>>) =>
        /\ gen.summary.status = "completed"
        /\ gen.summary.failed = Cardinality({j \in DOMAIN task : Unsuccessful(task[j])})
        /\ \A j \in DOMAIN task :
              Unsuccessful(task[j]) =>
                  \E r \in DOMAIN gen.summary.results :
                      /\ ~gen.summary.results[r].success
                      /\ gen.summary.results[r].error = task[j].err

\* C13: get_first_scene never returns data of a row whose is_successful is
\* false: what it returns is the data of a successful row of the key in the
\* table it read, and for a key whose rows are all failed attempts it returns
\* None, also while a generate_single_first_scene call for the key is between
\* two attempts.
C13_ResolverReturnsOnlySuccessful ==
    req.op = "get_first_scene" =>
        /\ req.found =>
              /\ req.row \in RowsOf(req.at, <<req.portrait_id, req.build_type>>)
              /\ req.row.is_successful
              /\ req.data = SceneData(req.row)
              /\ req.data.narration # "Generation failed"
        /\ (\A r \in RowsOf(req.at, <<req.portrait_id, req.build_type>>) :
               ~r.is_successful) => ~req.found /\ req.data = NoData

C13_Witness ==
    /\ req.op = "get_first_scene"
    /\ T1.pc = "sleep"
    /\ T1.key = <<req.portrait_id, req.build_type>>
    /\ req.readOk /\ ~req.found
    /\ req.at = store
    /\ \E r \in RowsOf(store, T1.key) : ~r.is_successful /\ r.retry_count = T1.n

\* C14: a failed row-store read never comes out of get_first_scene as an
\* exception: it returns None; and generate_first_scene_with_fallback, having
\* asked the row-store in vain, enters live generation.
C14_ReadFailureIsCacheMiss ==
    /\ (req.op = "get_first_scene" /\ ~req.readOk) =>
          ~req.raised /\ ~req.found /\ req.data = NoData
    /\ (req.op = "generate-first-scene" /\ req.queries > 0 /\ ~req.readOk) =>
          /\ ~req.raised /\ ~req.found
          /\ req.live
          /\ req.source # "pregenerated"
    /\ ~req.raised

C14_Witness ==
    /\ req.op = "generate-first-scene"
    /\ req.queries = 1 /\ ~req.readOk
    /\ HasSuccessfulRow(req.at, <<req.portrait_id, req.build_type>>)
    /\ req.live

IsPreset(portrait_id) == \E k \in DOMAIN PORTRAIT_IDS : PORTRAIT_IDS[k] = portrait_id

\* C15: get_first_scene called with a portrait id that is none of the 8 preset
\* ids returns None and issues no row-store query.
C15_NonPresetShortCircuit ==
    (req.op = "get_first_scene" /\ ~IsPreset(req.portrait_id)) =>
        ~req.found /\ req.queries = 0

\* A row is the record of one attempt: a success without error, or the failure
\* record without scene, image, audio and choices.
OneAttemptRecord(r) ==
    IF r.is_successful
    THEN r.last_error = NoError /\ r.narration # "Generation failed"
    ELSE /\ r.last_error # NoError
         /\ r.narration = "Generation failed" /\ r.visual_scene = "Generation failed"
         /\ r.image_url = Null /\ r.audio_url = Null /\ r.choices = <<>>

\* C16 as stated: with two concurrent writers of one key, once an upsert has
\* been issued the table holds a single row for the key, in full the record of
\* the most recent upsert.
C16_SingleRowOfLastUpsert ==
    (\E t \in DOMAIN task : task[t].upserts > 0) =>
        /\ Cardinality(RowsOf(store, RaceKey)) = 1
        /\ store = written

\* C16 amended: the table never holds two rows for the key, and its row is in
\* full the record of the most recent upsert the row-store accepted: the
\* fields of two attempts are never mixed; there is a row as soon as one
\* upsert was accepted.
C16_LastAcceptedUpsertWins ==
    /\ Cardinality(RowsOf(store, RaceKey)) <= 1
    /\ store = written
    /\ \A r \in store : OneAttemptRecord(r)
    /\ \A t \in DOMAIN task :
          (task[t].a.upserts > 0 /\ task[t].a.accepted) =>
              Cardinality(RowsOf(store, RaceKey)) = 1

C16_Witness ==
    /\ DOMAIN task = Writers
    /\ task[1].pc = "done" /\ task[1].result.success /\ task[1].a.accepted
    /\ task[1].image_url # Null
    /\ task[2].pc = "sleep" /\ task[2].a.accepted /\ task[2].n = 1
    /\ store = {task[2].a.row}

\* C17: when the story-generator raises during live generation for a character
\* that exists, the request is answered with the fixed placeholder scene and
\* its 4 choices, never with an HTTP error.
C17_LiveFailureGivesPlaceholder ==
    (req.live /\ req.generator = "raise" /\ req.status # 404) =>
        /\ req.status = 200
        /\ req.scene = PlaceholderScene
        /\ Len(req.scene.choices) = 4

\* C18: _apply_progressive_sanitization(text, k) with k >= 2 returns the fixed
\* generic forest description for every text, the empty text included.
C18_GenericFromLevelTwo ==
    (txt.op = "progressive" /\ txt.k >= 2) => txt.out = GenericDescription

C18_Witness ==
    /\ txt.op = "progressive"
    /\ txt.k = 2
    /\ txt.input = <<>>
    /\ txt.out = GenericDescription

\* A text holds a span a replacement pattern or an extreme pattern matches.
Flagged(s) ==
    \/ \E p \in DOMAIN s : ViolenceReplacement(s[p]) # <<s[p]>> \/ IsExtreme(s[p])
    \/ \E p \in DOMAIN ViolencePhrases, q \in DOMAIN s :
          IsPrefix(ViolencePhrases[p][1], SubSeq(s, q, Len(s)))

\* C19: a sanitized text holds no span that a replacement pattern or an
\* extreme pattern matches, and sanitizing it again changes nothing.
C19_SanitizeIdempotent ==
    /\ (txt.op = "sanitize" /\ txt.passes >= 1) => ~Flagged(txt.out)
    /\ (txt.op = "sanitize" /\ txt.passes = 2) => txt.again = txt.out

\* C20: the script exits with 0 iff no generation failed, with 1 iff some
\* failed and at least half of the combinations actually attempted succeeded,
\* and with 2 otherwise, for every filter and every outcome.
C20_TieredExitCode ==
    cli.op = "main" =>
        LET newly == cli.summary.newly_generated
            failed == cli.summary.failed
            attempted == newly + failed
        IN /\ cli.exit = 0 <=> failed = 0
           /\ cli.exit = 1 <=> (failed > 0 /\ 2 * newly >= attempted)
           /\ cli.exit = 2 <=> (failed > 0 /\ 2 * newly < attempted)

\* C21: within one attempt the steps run in the order text, image, audio,
\* persist: an attempt whose text generation failed makes no image-generator,
\* speech-synthesizer or blob-store call, and the upsert of a successful attempt
\* is issued only after both the image and the audio step have finished.
C21_StepsInOrder ==
    LET a == T1.a
        textFailed == T1.pc = "failed" \/ (a.upserts > 0 /\ ~a.row.is_successful)
    IN /\ textFailed => a.image = "none" /\ a.uploads = {} /\ ~a.speech
       /\ a.image # "none" => a.story > 0 /\ T1.story # NoStory
       /\ a.speech => a.image # "none"
       /\ a.uploads # {} => a.image # "none"
       /\ (a.upserts > 0 /\ a.row.is_successful) => a.image # "none" /\ a.speech
       /\ a.upserts <= 1

C21_Witness ==
    /\ T1.pc = "done"
    /\ T1.n = 1
    /\ T1.a.row.is_successful
    /\ T1.a.image = "generated"
    /\ T1.a.speech
    /\ T1.a.upserts = 1

\* The call has returned success at attempt index 2 after 6 story-generator
\* calls and the sleeps of 2 and 5 seconds.
SucceededAtGeneric ==
    /\ T1.pc = "done"
    /\ T1.result.returned /\ T1.result.success
    /\ T1.result.retry_count = 2
    /\ Len(T1.storyLog) = 6
    /\ T1.sleeps = <<2, 5>>

\* C22: against a story-generator that rejects every input but the generic
\* description with a content-safety error and accepts the generic description,
\* generate_one always terminates, and it terminates succeeded at attempt
\* index 2 after exactly 6 story-generator calls and exactly 2 backoff sleeps.
C22_GenericFallbackSucceeds ==
    /\ [](T1.pc = "done" => SucceededAtGeneric)
    /\ [](Len(T1.storyLog) <= 6 /\ Len(T1.sleeps) <= 2 /\ T1.pc # "index error")
    /\ (T1.pc = "story") ~> SucceededAtGeneric

C22_Witness ==
    /\ SucceededAtGeneric
    /\ T1.a.input = [desc |-> GenericDescription, ctx |-> GenericDescription]
    /\ T1.a.accepted

\* The request was a first-scene request that looked up the key of req.
LookedUp == req.op = "generate-first-scene" /\ req.queries = 1

\* C23: a first-scene request for an eligible preset portrait that misses in
\* the Resolver runs generate_one, so that after the request a row of the
\* combination has been upserted in the store.
C23_MissRunsEngine ==
    (LookedUp /\ ~req.found) =>
        /\ \E k \in DOMAIN calls : calls[k] = <<req.portrait_id, req.build_type>>
        /\ RowsOf(store, <<req.portrait_id, req.build_type>>) # {}

\* C24: when a successful row exists for the character's preset portrait and
\* build and the row-store answers, the first-scene request returns the
\* stored scene and makes no story-generator, image-generator,
\* speech-synthesizer or blob-store call.
C24_HitReturnsStoredScene ==
    (LookedUp /\ req.readOk
              /\ HasSuccessfulRow(req.at, <<req.portrait_id, req.build_type>>)) =>
        /\ req.found
        /\ req.status = 200
        /\ req.source = "pregenerated"
        /\ req.scene.narration = req.row.narration
        /\ ~req.live
        /\ req.storyCalls = 0
        /\ req.ports = 0

\* The handler found the character and classified the request as a first
\* scene request.
FirstSceneAsked ==
    /\ req.op = "generate-first-scene"
    /\ req.first
    /\ ~(req.status = 404 /\ ~req.live)

\* C25: on the first-scene path the Resolver is queried iff the character's
\* portrait resolves to one of the 8 preset ids and is not classified as
\* custom; for a custom portrait, or a portrait that resolves to no preset
\* id, no first_scenes query is made and the request goes straight to live
\* generation.
C25_ResolverOnlyForPresets ==
    FirstSceneAsked =>
        LET preset == /\ ~req.custom
                      /\ \E k \in DOMAIN PORTRAIT_IDS : PORTRAIT_IDS[k] = req.portrait_id
        IN /\ req.queries = (IF preset THEN 1 ELSE 0)
           /\ ~preset => req.live /\ ~req.found /\ req.at = {}

C25_Witness ==
    /\ FirstSceneAsked
    /\ req.portrait_id = "m7"
    /\ store # {}
    /\ req.queries = 0
    /\ req.live

\* The combinations the filter of the run selects.
Selected == {CliCombinations(cli.args)[k] : k \in DOMAIN CliCombinations(cli.args)}

\* C26: a run with a --portrait-id and/or --build-type filter calls
\* generate_single_first_scene only for combinations of the filter, whatever
\* the size of the selection.
C26_OnlySelectedGenerated ==
    (cli.op = "main" /\ (cli.args.portrait_id # Null \/ cli.args.build_type # Null))
        => cli.generated \subseteq Selected

\* C27: a run without --force calls generate_single_first_scene for no
\* selected combination that has a successful row, whatever the size of the
\* selection.
C27_ExistingSkipped ==
    (cli.op = "main" /\ ~cli.args.force)
        => cli.generated \cap Selected \cap cli.existing = {}

\* The step ends a failed attempt of the call in slot 1: its except clause ran.
FailedAttemptEnds == T1.pc = "failed" /\ T1'.pc # "failed"

\* C28 as stated: once the text generation of an attempt has failed for a
\* combination whose row is successful, the failure upsert has replaced the
\* row and the combination has no successful row left.
C28_FailureReplacesSuccess ==
    [][(FailedAttemptEnds /\ HasSuccessfulRow(store, T1.key))
            => ~HasSuccessfulRow(store', T1.key)]_vars

\* C28 amended: such an attempt issues one failure upsert; when the row-store
\* accepts it the successful row is replaced by the failure row and the
\* resolver finds nothing for the combination, whatever its query does, until
\* a success upsert for the key is accepted; when the row-store rejects it the
\* table is left as it was.  A successful row leaves the table only by an
\* accepted upsert of a generate_one call for its key.
C28_AcceptedFailureReplacesSuccess ==
    /\ [][(FailedAttemptEnds /\ HasSuccessfulRow(store, T1.key))
            => /\ T1'.a.upserts = 1
               /\ ~T1'.a.row.is_successful
               /\ T1'.a.accepted
                    => /\ RowsOf(store', T1.key) = {T1'.a.row}
                       /\ \A readOk \in BOOLEAN :
                            ~GetFirstScene(store', T1.key[1], T1.key[2], readOk).found
               /\ ~T1'.a.accepted => store' = store]_vars
    /\ [][\A key \in OneCombos :
            (~HasSuccessfulRow(store, key) /\ HasSuccessfulRow(store', key))
                => /\ T1.pc = "store"
                   /\ T1.key = key
                   /\ T1'.a.accepted
                   /\ T1'.a.row.is_successful]_vars
    /\ [][\A r \in store :
            (r.is_successful /\ r \notin store')
                => /\ T1.key = <<r.portrait_id, r.build_type>>
                   /\ T1.a.upserts = 0
                   /\ T1'.a.upserts = 1
                   /\ T1'.a.accepted]_vars

\* The resolver found the old successful row; then the text generation of
\* the first attempt of a call for its key failed, the failure upsert was
\* accepted and the table has no successful row for the key.
C28_Witness ==
    /\ req.op = "get_first_scene"
    /\ req.found
    /\ req.row = OldSuccessRow
    /\ T1.key = <<req.portrait_id, req.build_type>>
    /\ T1.pc = "sleep"
    /\ T1.a.upserts = 1
    /\ T1.a.accepted
    /\ ~T1.a.row.is_successful
    /\ store = {T1.a.row}

\* C29: a rejected upsert never changes the outcome of generate_one.  The
\* attempt whose text generation succeeded issues one upsert and returns
\* success = true with the same result whether or not the row-store accepted
\* the write; a failed attempt issues one upsert and goes on to its sleep or
\* its failure result either way; no upsert is repeated.
C29_UpsertFailureSwallowed ==
    /\ [][(T1.pc = "store" /\ T1'.pc # "store")
            => /\ T1'.pc = "done"
               /\ T1'.result.returned /\ T1'.result.success
               /\ T1'.result.retry_count = T1.n
               /\ T1'.result.has_image = (T1.image_url # Null)
               /\ T1'.result.has_audio = (T1.audio_url # Null)
               /\ T1'.a.upserts = 1 /\ T1'.upserts = T1.upserts + 1
               /\ T1'.a.row.is_successful
               /\ ~T1'.a.accepted => store' = store]_vars
    /\ [][FailedAttemptEnds
            => /\ T1'.pc = (IF MayRetry(T1.n) THEN "sleep" ELSE "done")
               /\ T1'.pc = "done" => T1'.result.returned /\ ~T1'.result.success
               /\ T1'.a.upserts = 1 /\ T1'.upserts = T1.upserts + 1
               /\ ~T1'.a.accepted => store' = store]_vars
    /\ [](T1.a.upserts <= 1 /\ T1.upserts <= T1.attempts)

\* generate_one returned success = true, the row-store rejected the upsert
\* and the table holds no successful row for the combination.
C29_Witness ==
    /\ T1.pc = "done"
    /\ T1.result.success
    /\ T1.a.upserts = 1
    /\ ~T1.a.accepted
    /\ ~HasSuccessfulRow(store, T1.key)

\* C30: every summary generate_all_first_scenes returns, the one of the
\* early return included, has already_generated + newly_generated + failed
\* equal to total_combinations, the size of the combination space, with no
\* negative count.
C30_SummaryAddsUp ==
    gen.phase = "done" =>
        LET m == gen.summary
        IN /\ m.status = "completed"
           /\ m.total_combinations = Len(Combinations)
           /\ m.already_generated + m.newly_generated + m.failed = m.total_combinations
           /\ m.already_generated \in 0..Len(Combinations)
           /\ m.newly_generated \in 0..Len(Combinations)
           /\ m.failed \in 0..Len(Combinations)

\* A run without force_regenerate that skipped some combinations, generated
\* some, and had a task end in an exception.
C30_Witness ==
    /\ gen.phase = "done"
    /\ ~gen.force
    /\ gen.summary.already_generated > 0
    /\ gen.summary.newly_generated > 0
    /\ gen.summary.failed > Len(gen.summary.results) - gen.summary.newly_generated

====
